---- MODULE Spec2Model ----
(***************************************************************************)
(* Model of auto_watering.py: relay line start-up, the soil-sensor poll    *)
(* loop with its interval-gated reading log, the cycle error handler and   *)
(* the cleanup block.                                                      *)
(*                                                                         *)
(* Time is counted in ticks of 1/TicksPerSec second and does not go back.  *)
(* The calendar is scaled down (DayTicks ticks a day, DaysPerMonth days a  *)
(* month, MonthsPerYear months a year) so that a run crosses a day         *)
(* boundary.  Sensor reads, file writes and relay line operations may      *)
(* fail; the operator's interrupt may arrive at any step of the body of a  *)
(* loop iteration (lines 124-139), the RUNNING state of the program, and   *)
(* is not modelled inside the error handler or the cleanup block.          *)
(***************************************************************************)
EXTENDS Integers, Sequences, FiniteSets, TLC

\* ---------------------------------------------------------------- constants
DRY_THRESHOLD == 19000
LOG_INTERVAL == 1

RELAY_ON == "INACTIVE"
RELAY_OFF == "ACTIVE"

\* ------------------------------------------------------------------- bounds
TicksPerSec == 2
DayTicks == 4
DaysPerMonth == 2
MonthsPerYear == 2
MaxClock == 6
MaxAdvance == 2
Margin == 1

\* ------------------------------------------------------------------- inputs
\* raw ADC values around the dryness threshold
RawValues == (DRY_THRESHOLD - Margin)..(DRY_THRESHOLD + Margin)
\* soil.voltage, in millivolts
Voltages == {2375}

NoException == [type |-> "None", msg |-> "", line |-> 0]
SensorFaults == {[type |-> "OSError", msg |-> "Remote I/O error"]}
FileFaults == {[type |-> "PermissionError", msg |-> "Permission denied"]}
LineFaults == {[type |-> "OSError", msg |-> "Device or resource busy"]}

Raise(fault, line) == [type |-> fault.type, msg |-> fault.msg, line |-> line]

VARIABLES
    pc,             \* position of the script
    line_value,     \* physical level of the relay line
    relay_request,  \* the line request: "none", "held" or "released"
    value,          \* value (line 124)
    voltage,        \* voltage (line 125)
    current_time,   \* current_time (line 126)
    last_log_time,  \* last_log_time (line 119)
    clock,          \* the system clock
    dirs,           \* log directories that exist
    files,          \* log files: path -> sequence of entries
    exc,            \* the exception that is propagating, or NoException
    caught,         \* e, the exception bound by "except Exception as e"
    interrupt_at,   \* history: where the operator's interrupt arrived, or "none"
    console,        \* the last line printed
    exit_code,      \* "none" while running, then 0 or 1
    log_times,      \* history: current_time of every iteration that wrote a reading
    cleanup_calls   \* history: relay operations called by the cleanup block

vars == <<pc, line_value, relay_request, value, voltage, current_time,
          last_log_time, clock, dirs, files, exc, caught, interrupt_at, console,
          exit_code, log_times, cleanup_calls>>

\* ---------------------------------------------------------------- the clock
\* a reading of the clock: it has moved by at most MaxAdvance ticks
ClockReadings(c) == {t \in c..(c + MaxAdvance) : t <= MaxClock}

\* datetime.now() broken down as strftime does
DateOf(t) ==
    LET dayIndex == t \div DayTicks
        monthIndex == dayIndex \div DaysPerMonth
    IN  [year |-> 1970 + (monthIndex \div MonthsPerYear),
         month |-> 1 + (monthIndex % MonthsPerYear),
         day |-> 1 + (dayIndex % DaysPerMonth)]

\* log/YYYY/MM
LogDir(t) == <<"log", DateOf(t).year, DateOf(t).month>>

\* log/YYYY/MM/YYYY-MM-DD.log
SoilLogFile(t) ==
    LogDir(t) \o << <<DateOf(t).year, DateOf(t).month, DateOf(t).day>>, ".log" >>

\* mutant: errors go to the file of the readings
ErrorLogFileShared(t) == SoilLogFile(t)

\* log/YYYY/MM/YYYY-MM-DD_error.log
ErrorLogFile(t) ==
    LogDir(t) \o << <<DateOf(t).year, DateOf(t).month, DateOf(t).day>>, "_error.log" >>

\* open(path, "a") followed by write(entry)
AppendTo(fs, path, entry) ==
    IF path \in DOMAIN fs
    THEN [fs EXCEPT ![path] = Append(@, entry)]
    ELSE fs @@ (path :> <<entry>>)

\* ------------------------------------------------------------- log entries
\* mutant: a value equal to the threshold counts as dry
ClassifyInclusive(v) == IF v >= DRY_THRESHOLD THEN "dry" ELSE "wet"

\* the message built at lines 134-139
Classify(v) == IF v > DRY_THRESHOLD THEN "dry" ELSE "wet"

SoilMessage(v) == [kind |-> Classify(v), value |-> v]

\* the line written by log_soil_data
SoilEntry(t, message, v, mv) ==
    [category |-> "reading", time |-> t, message |-> message, raw |-> v, voltage |-> mv]

\* the block written by log_error
ErrorEntry(t, e) ==
    [category |-> "error", time |-> t, error_type |-> e.type,
     error_message |-> e.msg, traceback |-> e.line]

\* --------------------------------------------------------------------- Init
Init ==
    /\ pc = "request_lines"
    /\ line_value \in {RELAY_ON, RELAY_OFF}
    /\ relay_request = "none"
    /\ value = 0
    /\ voltage = 0
    /\ current_time = 0
    /\ last_log_time = 0
    /\ clock = LOG_INTERVAL * TicksPerSec
    /\ dirs = {}
    /\ files = << >>
    /\ exc = NoException
    /\ caught = NoException
    /\ interrupt_at = "none"
    /\ console = ""
    /\ exit_code = "none"
    /\ log_times = << >>
    /\ cleanup_calls = << >>

\* ------------------------------------------------------------ start-up
\* mutant: the line is requested with the relay energised
RequestedOutputValueOn == RELAY_ON

\* output_value of the LineSettings passed to gpiod.request_lines
RequestedOutputValue == RELAY_OFF

\* gpiod.request_lines succeeds: the line is held and driven to output_value
RequestLinesOk ==
    /\ pc = "request_lines"
    /\ relay_request' = "held"
    /\ line_value' = RequestedOutputValue
    /\ pc' = "init_sensor"
    /\ UNCHANGED <<value, voltage, current_time, last_log_time, clock, dirs, files,
                   exc, caught, interrupt_at, console, exit_code, log_times, cleanup_calls>>

\* gpiod.request_lines raises: the script dies before anything else runs
RequestLinesFail ==
    /\ pc = "request_lines"
    /\ \E f \in LineFaults : exc' = Raise(f, 93)
    /\ pc' = "terminated"
    /\ exit_code' = 1
    /\ UNCHANGED <<line_value, relay_request, value, voltage, current_time,
                   last_log_time, clock, dirs, files, caught, interrupt_at, console,
                   log_times, cleanup_calls>>

\* busio.I2C, ADS1115 and AnalogIn succeed; the banner is printed and
\* last_log_time is set to 0
SensorInitOk ==
    /\ pc = "init_sensor"
    /\ console' = "started"
    /\ last_log_time' = 0
    /\ pc' = "read_value"
    /\ UNCHANGED <<line_value, relay_request, value, voltage, current_time, clock,
                   dirs, files, exc, caught, interrupt_at, exit_code, log_times, cleanup_calls>>

\* the bus or the converter cannot be opened: the script dies outside the try
SensorInitFail ==
    /\ pc = "init_sensor"
    /\ \E f \in SensorFaults : exc' = Raise(f, 108)
    /\ pc' = "terminated"
    /\ exit_code' = 1
    /\ UNCHANGED <<line_value, relay_request, value, voltage, current_time,
                   last_log_time, clock, dirs, files, caught, interrupt_at, console,
                   log_times, cleanup_calls>>

\* ------------------------------------------------------------ poll loop
\* value = soil.value
ReadValueOk ==
    /\ pc = "read_value"
    /\ value' \in RawValues
    /\ pc' = "read_voltage"
    /\ UNCHANGED <<line_value, relay_request, voltage, current_time, last_log_time,
                   clock, dirs, files, exc, caught, interrupt_at, console, exit_code,
                   log_times, cleanup_calls>>

ReadValueFail ==
    /\ pc = "read_value"
    /\ \E f \in SensorFaults : exc' = Raise(f, 124)
    /\ caught' = exc'
    /\ pc' = "except"
    /\ UNCHANGED <<line_value, relay_request, value, voltage, current_time,
                   last_log_time, clock, dirs, files, interrupt_at, console,
                   exit_code, log_times, cleanup_calls>>

\* voltage = soil.voltage
ReadVoltageOk ==
    /\ pc = "read_voltage"
    /\ voltage' \in Voltages
    /\ pc' = "check_interval"
    /\ UNCHANGED <<line_value, relay_request, value, current_time, last_log_time,
                   clock, dirs, files, exc, caught, interrupt_at, console, exit_code,
                   log_times, cleanup_calls>>

ReadVoltageFail ==
    /\ pc = "read_voltage"
    /\ \E f \in SensorFaults : exc' = Raise(f, 125)
    /\ caught' = exc'
    /\ pc' = "except"
    /\ UNCHANGED <<line_value, relay_request, value, voltage, current_time,
                   last_log_time, clock, dirs, files, interrupt_at, console,
                   exit_code, log_times, cleanup_calls>>

\* mutant: the interval is not compared
LogDueAlways(now, last) == TRUE

\* current_time - last_log_time >= LOG_INTERVAL
LogDue(now, last) == now - last >= LOG_INTERVAL * TicksPerSec

\* mutant: last_log_time is not updated
NextLastLogTimeStale(now, last) == last

\* last_log_time after the interval check of an iteration at time now
NextLastLogTime(now, last) == IF LogDue(now, last) THEN now ELSE last

\* current_time = time.time(), the sensor line is printed and the interval is
\* checked; when it has elapsed last_log_time is set and the write follows
CheckInterval ==
    /\ pc = "check_interval"
    /\ \E t \in ClockReadings(clock) :
        /\ clock' = t
        /\ current_time' = t
        /\ last_log_time' = NextLastLogTime(t, last_log_time)
        /\ pc' = IF LogDue(t, last_log_time) THEN "log" ELSE "read_value"
    /\ console' = "sensor"
    /\ UNCHANGED <<line_value, relay_request, value, voltage, dirs, files, exc,
                   caught, interrupt_at, exit_code, log_times, cleanup_calls>>

\* log_soil_data(message, value, voltage) appends one line to the day's file
LogSoilDataOk ==
    /\ pc = "log"
    /\ \E t \in ClockReadings(clock) :
        /\ clock' = t
        /\ dirs' = dirs \cup {LogDir(t)}
        /\ files' = AppendTo(files, SoilLogFile(t),
                             SoilEntry(t, SoilMessage(value), value, voltage))
    /\ log_times' = Append(log_times, current_time)
    /\ console' = "logged"
    /\ pc' = "read_value"
    /\ UNCHANGED <<line_value, relay_request, value, voltage, current_time,
                   last_log_time, exc, caught, interrupt_at, exit_code, cleanup_calls>>

\* log_soil_data raises: mkdir fails, or mkdir succeeds and the open or the
\* write fails
LogSoilDataFail ==
    /\ pc = "log"
    /\ \E t \in ClockReadings(clock) :
        /\ clock' = t
        /\ \/ /\ dirs' = dirs
              /\ \E f \in FileFaults : exc' = Raise(f, 44)
           \/ /\ dirs' = dirs \cup {LogDir(t)}
              /\ \E f \in FileFaults : exc' = Raise(f, 53)
    /\ caught' = exc'
    /\ console' = Classify(value)
    /\ pc' = "except"
    /\ UNCHANGED <<line_value, relay_request, value, voltage, current_time,
                   last_log_time, files, interrupt_at, exit_code, log_times,
                   cleanup_calls>>

\* ------------------------------------------------------- exception handling
\* mutant: the handler catches every exception, as a bare except does
IsBaseException(type) == TRUE

\* does "except Exception" (line 142) catch an exception of this type
IsException(type) == type # "KeyboardInterrupt"

\* "except KeyboardInterrupt" (line 151): what still propagates after it
AfterOuterExcept(e) == IF e.type = "KeyboardInterrupt" THEN NoException ELSE e

\* the positions of the body of an iteration
Body == {"read_value", "read_voltage", "check_interval", "log"}

\* the operator's interrupt arrives while the body of an iteration runs
KeyboardInterrupt ==
    /\ pc \in Body
    /\ interrupt_at' = pc
    /\ LET e == [type |-> "KeyboardInterrupt", msg |-> "", line |-> 0]
       IN  IF IsException(e.type)
           THEN /\ exc' = e
                /\ pc' = "except"
                /\ caught' = e
                /\ UNCHANGED console
           ELSE /\ exc' = AfterOuterExcept(e)
                /\ UNCHANGED caught
                /\ console' = "stopped_by_user"
                /\ pc' = "finally"
    /\ UNCHANGED <<line_value, relay_request, value, voltage, current_time,
                   last_log_time, clock, dirs, files, exit_code, log_times,
                   cleanup_calls>>

\* mutant: the handler does not raise again
ReraiseNothing(e) == NoException

\* the exception that leaves the handler at "raise" (line 149)
Reraise(e) == e

\* the handler of line 142: log_error appends one block, two lines are printed
\* and the exception is raised again
ExceptLogErrorOk ==
    /\ pc = "except"
    /\ \E t \in ClockReadings(clock) :
        /\ clock' = t
        /\ dirs' = dirs \cup {LogDir(t)}
        /\ files' = AppendTo(files, ErrorLogFile(t), ErrorEntry(t, caught))
    /\ console' = "stopping"
    /\ exc' = AfterOuterExcept(Reraise(caught))
    /\ pc' = "finally"
    /\ UNCHANGED <<line_value, relay_request, value, voltage, current_time,
                   last_log_time, caught, interrupt_at, exit_code, log_times,
                   cleanup_calls>>

\* log_error itself raises inside the handler: its exception leaves the handler
ExceptLogErrorFail ==
    /\ pc = "except"
    /\ \E t \in ClockReadings(clock) :
        /\ clock' = t
        /\ \/ /\ dirs' = dirs
              /\ \E f \in FileFaults : exc' = Raise(f, 65)
           \/ /\ dirs' = dirs \cup {LogDir(t)}
              /\ \E f \in FileFaults : exc' = Raise(f, 81)
    /\ pc' = "finally"
    /\ UNCHANGED <<line_value, relay_request, value, voltage, current_time,
                   last_log_time, files, caught, interrupt_at, console, exit_code,
                   log_times, cleanup_calls>>

\* ------------------------------------------------------------------ cleanup
\* the value written by the cleanup block
CleanupValue == RELAY_OFF

\* mutant: the failure of the relay operation is not caught
AfterCleanupExceptUncaught(propagating, failure) == failure

\* what propagates after "except Exception" of the cleanup block (line 160)
\* caught the failure of a relay operation
AfterCleanupExcept(propagating, failure) == propagating

\* the exit status of the interpreter
ExitCode(e) == IF e = NoException THEN 0 ELSE 1

\* relay_request.set_value(RELAY_GPIO, RELAY_OFF) succeeds
FinallySetValueOk ==
    /\ pc = "finally"
    /\ cleanup_calls' = Append(cleanup_calls, "set_value")
    /\ line_value' = CleanupValue
    /\ console' = "cleaning"
    /\ pc' = "release"
    /\ UNCHANGED <<relay_request, value, voltage, current_time, last_log_time,
                   clock, dirs, files, exc, caught, interrupt_at, exit_code, log_times>>

\* set_value raises: the failure is printed and the script ends
FinallySetValueFail ==
    /\ pc = "finally"
    /\ cleanup_calls' = Append(cleanup_calls, "set_value")
    /\ \E f \in LineFaults :
        /\ exc' = AfterCleanupExcept(exc, Raise(f, 157))
        /\ exit_code' = ExitCode(exc')
    /\ console' = "cleanup_error"
    /\ pc' = "terminated"
    /\ UNCHANGED <<line_value, relay_request, value, voltage, current_time,
                   last_log_time, clock, dirs, files, caught, interrupt_at, log_times>>

\* relay_request.release() succeeds
FinallyReleaseOk ==
    /\ pc = "release"
    /\ cleanup_calls' = Append(cleanup_calls, "release")
    /\ relay_request' = "released"
    /\ console' = "cleanup_done"
    /\ exit_code' = ExitCode(exc)
    /\ pc' = "terminated"
    /\ UNCHANGED <<line_value, value, voltage, current_time, last_log_time, clock,
                   dirs, files, exc, caught, interrupt_at, log_times>>

\* release raises: the failure is printed and the script ends
FinallyReleaseFail ==
    /\ pc = "release"
    /\ cleanup_calls' = Append(cleanup_calls, "release")
    /\ \E f \in LineFaults :
        /\ exc' = AfterCleanupExcept(exc, Raise(f, 158))
        /\ exit_code' = ExitCode(exc')
    /\ console' = "cleanup_error"
    /\ pc' = "terminated"
    /\ UNCHANGED <<line_value, relay_request, value, voltage, current_time,
                   last_log_time, clock, dirs, files, caught, interrupt_at, log_times>>

\* ------------------------------------------------------------ specification
Next ==
    \/ RequestLinesOk
    \/ RequestLinesFail
    \/ SensorInitOk
    \/ SensorInitFail
    \/ ReadValueOk
    \/ ReadValueFail
    \/ ReadVoltageOk
    \/ ReadVoltageFail
    \/ CheckInterval
    \/ LogSoilDataOk
    \/ LogSoilDataFail
    \/ KeyboardInterrupt
    \/ ExceptLogErrorOk
    \/ ExceptLogErrorFail
    \/ FinallySetValueOk
    \/ FinallySetValueFail
    \/ FinallyReleaseOk
    \/ FinallyReleaseFail

Spec == Init /\ [][Next]_vars

\* the interpreter keeps executing: every step that can be taken is taken
FairSpec == Spec /\ WF_vars(Next)

\* ------------------------------------------------------------- properties
\* the logical state of the active-low relay
RelayState == IF line_value = RELAY_ON THEN "ON" ELSE "OFF"

\* the entries of the log files, as <<path, index>>
Slots(fs) == UNION {{<<p, i>> : i \in 1..Len(fs[p])} : p \in DOMAIN fs}
EntryAt(fs, s) == fs[s[1]][s[2]]
ReadingSlots(fs) == {s \in Slots(fs) : EntryAt(fs, s).category = "reading"}
ErrorSlots(fs) == {s \in Slots(fs) : EntryAt(fs, s).category = "error"}

IntervalTicks == LOG_INTERVAL * TicksPerSec
LastWritten == IF log_times = << >> THEN 0 ELSE log_times[Len(log_times)]
AfterHandler == pc \in {"finally", "release", "terminated"}
ShuttingDown == pc \in {"except", "finally", "release"}
WriteFailed == caught.line \in {44, 53}

\* C1: from the moment the relay line has been requested the relay is OFF, in
\* every state up to and including termination, whatever the exit path and
\* whether or not the cleanup write succeeded.
RelayOffOnceRequested == relay_request # "none" => RelayState = "OFF"

\* C1 witness: a cycle error ended the loop and the cleanup write failed
RelayOffAfterFailedCleanupWrite ==
    /\ pc = "terminated"
    /\ caught # NoException
    /\ cleanup_calls = <<"set_value">>
    /\ RelayState = "OFF"

\* C2: whenever the cleanup block has run to the end of the script it has
\* called set_value and then release, release also after a failed set_value.
CleanupCallsSetValueThenRelease ==
    (pc = "terminated" /\ cleanup_calls # << >>)
        => cleanup_calls = <<"set_value", "release">>

CleanupFailureStep ==
    \/ pc = "finally" /\ pc' = "terminated"
    \/ pc = "release" /\ relay_request' # "released"

CleanupStep ==
    pc \in {"finally", "release"} =>
        /\ files' = files
        /\ dirs' = dirs
        /\ exc' = exc
        /\ pc' \in {"release", "terminated"}
        /\ CleanupFailureStep =>
            /\ console' = "cleanup_error"
            /\ pc' = "terminated"
            /\ exit_code' = ExitCode(exc)

\* C4: a failing cleanup operation only prints: no log file changes, the
\* failure does not replace what was propagating, the script ends at once; and
\* once shutdown has begun the script always terminates.
CleanupFailureSwallowed ==
    /\ [][CleanupStep]_vars
    /\ ShuttingDown ~> (pc = "terminated")

\* C4 witness: release failed after a successful set_value
ReleaseFailedAndTerminated ==
    /\ pc = "terminated"
    /\ console = "cleanup_error"
    /\ cleanup_calls = <<"set_value", "release">>
    /\ relay_request = "held"

\* C5: an interrupt in the body of an iteration never reaches the cycle error
\* handler, leaves the error log empty, is not raised again, and leads through
\* the cleanup to exit code 0.
InterruptIsCleanExit ==
    interrupt_at # "none" =>
        /\ caught = NoException
        /\ exc = NoException
        /\ ErrorSlots(files) = {}
        /\ AfterHandler
        /\ pc = "terminated" => (exit_code = 0 /\ cleanup_calls # << >>)

\* C5 witness: the interrupt arrived during the reading-log write
InterruptedDuringLogWrite ==
    /\ interrupt_at = "log"
    /\ pc = "terminated"
    /\ exit_code = 0

\* C6: the iterations that wrote a reading are at least LOG_INTERVAL apart, and
\* an iteration reaches the write only when LOG_INTERVAL has elapsed since the
\* last one that did.
LogWritesAtLeastIntervalApart ==
    /\ Len(log_times) = Cardinality(ReadingSlots(files))
    /\ \A i \in 1..(Len(log_times) - 1) :
        log_times[i + 1] - log_times[i] >= IntervalTicks
    /\ (pc = "log" /\ log_times # << >>) => current_time - LastWritten >= IntervalTicks

\* C6 witness: two readings were written and a later read, too early, was not
ReadSkippedAfterTwoWrites ==
    /\ Len(log_times) >= 2
    /\ pc = "read_value"
    /\ console = "sensor"
    /\ current_time - LastWritten < IntervalTicks

\* C7: every logged reading says "dry" exactly when its raw value is above
\* DRY_THRESHOLD and "wet" otherwise (so at the threshold), and the message
\* carries the raw value that is logged.
ClassificationMatchesThreshold ==
    \A s \in ReadingSlots(files) :
        LET entry == EntryAt(files, s)
        IN  /\ entry.message.kind \in {"dry", "wet"}
            /\ entry.message.kind = "dry" <=> entry.raw > DRY_THRESHOLD
            /\ entry.raw = DRY_THRESHOLD => entry.message.kind = "wet"
            /\ entry.message.value = entry.raw

\* C7 witness: a reading at the threshold and a reading above it were logged
ThresholdAndDryLogged ==
    /\ \E s \in ReadingSlots(files) : EntryAt(files, s).raw = DRY_THRESHOLD
    /\ \E s \in ReadingSlots(files) : EntryAt(files, s).message.kind = "dry"

\* two entries are in the same file exactly when they have the same date and
\* the same category
PathIsFunctionOfDateAndCategory ==
    \A s1, s2 \in Slots(files) :
        (/\ DateOf(EntryAt(files, s1).time) = DateOf(EntryAt(files, s2).time)
         /\ EntryAt(files, s1).category = EntryAt(files, s2).category)
            <=> s1[1] = s2[1]

\* every file keeps the entries it has, in their places
AppendOnly ==
    \A p \in DOMAIN files :
        /\ p \in DOMAIN files'
        /\ Len(files'[p]) >= Len(files[p])
        /\ \A i \in 1..Len(files[p]) : files'[p][i] = files[p][i]

\* C8: the file of an entry is decided by its date and its category alone
\* (same day and category: same file; another day or the other category:
\* another file), and a write never removes or alters an entry.
LogFileByDateAndCategory ==
    /\ []PathIsFunctionOfDateAndCategory
    /\ [][AppendOnly]_vars

\* C8 witness: readings of two days, two of them on one day, and an error
TwoDaysAndAnErrorLogged ==
    /\ Cardinality(DOMAIN files) >= 3
    /\ \E p \in DOMAIN files : Len(files[p]) >= 2
    /\ ErrorSlots(files) # {}

\* C9: when the script has ended, a relay line that was acquired has been
\* released by a call of release, and the loop was entered only after both
\* the relay and the sensor initialised.
RelayReleasedOnEveryTermination ==
    /\ (pc = "terminated" /\ relay_request # "none")
        => \E i \in 1..Len(cleanup_calls) : cleanup_calls[i] = "release"
    /\ pc \in Body => relay_request = "held"

\* C10 as stated: last_log_time is the time of the most recent reading that
\* was written, 0 when there is none.
LastLogTimeIsLastWritten == last_log_time = LastWritten

LastLogTimeInv ==
    IF pc = "log" \/ WriteFailed \/ interrupt_at = "log"
    THEN last_log_time = current_time /\ LastWritten < current_time
    ELSE last_log_time = LastWritten

GateStep ==
    /\ (pc = "check_interval" /\ pc' \in Body) =>
        /\ files' = files
        /\ IF current_time' - last_log_time >= IntervalTicks
           THEN pc' = "log" /\ last_log_time' = current_time'
           ELSE pc' = "read_value" /\ last_log_time' = last_log_time
        /\ last_log_time = 0 => pc' = "log"
    /\ (pc = "log" /\ pc' = "read_value") =>
        /\ Cardinality(ReadingSlots(files')) = Cardinality(ReadingSlots(files)) + 1
        /\ log_times' = Append(log_times, current_time)
        /\ last_log_time' = last_log_time

\* C10 amended: when the interval has elapsed last_log_time is set to the
\* iteration's time first and exactly one reading is written after that;
\* otherwise nothing is written and last_log_time is unchanged.  last_log_time
\* is the time of the most recent written reading (0 when there is none, so
\* the first iteration logs), except while the write of the iteration is
\* pending and after that write has failed or has been interrupted, when it is
\* that iteration's time.
LastLogTimeSetBeforeWrite ==
    /\ []LastLogTimeInv
    /\ [][GateStep]_vars

\* C10 witness: an iteration has set last_log_time and its write has failed
WriteFailedAfterUpdate ==
    /\ WriteFailed
    /\ log_times # << >>
    /\ last_log_time = current_time
    /\ last_log_time # LastWritten

====
